---- MODULE Spec2Model ----
(***************************************************************************)
(* Model of AscResult (src/compose/asc-result.c): the result container of  *)
(* one composed unit, its three GHashTables, the GCID hash chaining and    *)
(* the bundle-attachment policy of asc_result_add_component.               *)
(*                                                                         *)
(* Encoding.  A C string is a TLA+ string; the NULL char pointer is the    *)
(* reserved string NULL.  A GHashTable pointer is a record                 *)
(* [alloc, kv]: alloc = FALSE is the NULL pointer, kv is the set of        *)
(* <<key, value>> pairs of an allocated table.  An AsComponent object is   *)
(* a number of Components (its address); NoComponent is the NULL object.   *)
(* A GCID is the pair <<cid, hash>>; the unset data-id is <<>>.            *)
(***************************************************************************)
EXTENDS Integers, Sequences, FiniteSets, TLC

(* ---------------- bounds of the model ---------------- *)

\* most bundle descriptors a component carries before add stops appending
MaxBundles == 1
\* longest metadata hash string that is still chained further
MaxHashLen == 5

(* ---------------- program constants ---------------- *)

NULL == "NULL"
NoComponent == 0

AS_BUNDLE_KIND_UNKNOWN == 0
AS_BUNDLE_KIND_PACKAGE == 1
AS_BUNDLE_KIND_FLATPAK == AS_BUNDLE_KIND_PACKAGE + 2
AS_BUNDLE_KIND_LAST == 8
BundleKinds ==
    {AS_BUNDLE_KIND_UNKNOWN, AS_BUNDLE_KIND_PACKAGE,
     AS_BUNDLE_KIND_FLATPAK, AS_BUNDLE_KIND_LAST}

AS_COMPONENT_KIND_DESKTOP_APP == "desktop-application"
AS_COMPONENT_KIND_WEB_APP == "web-application"
AS_COMPONENT_KIND_OPERATING_SYSTEM == "operating-system"
AS_MERGE_KIND_NONE == "none"
AS_MERGE_KIND_REMOVE_COMPONENT == "remove-component"

(* ---------------- the caller's inputs ---------------- *)

\* AsComponent objects the caller holds: 1 and 2 are two objects with the
\* same component-id, 3 has another id, 4 has an empty id.
Components == 1..4
as_component_get_id(cpt) ==
    CASE cpt = 1 -> "a"
      [] cpt = 2 -> "a"
      [] cpt = 3 -> "b"
      [] OTHER   -> ""
ComponentIds == {as_component_get_id(c) : c \in Components}

\* (kind, merge kind) a component is created with
Profiles ==
    { <<AS_COMPONENT_KIND_DESKTOP_APP, AS_MERGE_KIND_NONE>>,
      <<AS_COMPONENT_KIND_WEB_APP, AS_MERGE_KIND_NONE>>,
      <<AS_COMPONENT_KIND_OPERATING_SYSTEM, AS_MERGE_KIND_NONE>>,
      <<AS_COMPONENT_KIND_DESKTOP_APP, AS_MERGE_KIND_REMOVE_COMPONENT>> }
ProfilesOf(cpt) ==
    CASE cpt = 1 -> Profiles
      [] cpt = 2 -> {<<AS_COMPONENT_KIND_DESKTOP_APP, AS_MERGE_KIND_NONE>>}
      [] cpt = 3 -> {<<AS_COMPONENT_KIND_OPERATING_SYSTEM, AS_MERGE_KIND_NONE>>}
      [] OTHER   -> {<<AS_COMPONENT_KIND_DESKTOP_APP, AS_MERGE_KIND_NONE>>,
                     <<AS_COMPONENT_KIND_WEB_APP, AS_MERGE_KIND_NONE>>}
\* package names a component carries when the caller hands it over
InitialPkgnames(cpt) == IF cpt \in {2, 4} THEN <<"old">> ELSE <<>>

DataValues == {"a", "b"}
BundleIdValues == {"pkg1"}

(* ---------------- GLib and AppStream helpers ---------------- *)

as_is_empty(str) == str = NULL \/ str = ""

\* g_compute_checksum_for_string (G_CHECKSUM_MD5, ...): a collision-free
\* digest, written as the bracketed input
g_compute_checksum_for_string(str) == "<" \o str \o ">"

g_strconcat(s1, s2) == s1 \o s2

asc_build_component_global_id(cid, hash) == <<cid, hash>>

NullTable == [alloc |-> FALSE, kv |-> {}]
g_hash_table_new_full == [alloc |-> TRUE, kv |-> {}]

\* the g_return_val_if_fail (hash_table != NULL, ...) guards of GLib make
\* every call on a NULL table return 0 / FALSE / NULL and change nothing
g_hash_table_size(table) == IF table.alloc THEN Cardinality(table.kv) ELSE 0

g_hash_table_contains(table, key) ==
    table.alloc /\ \E p \in table.kv : p[1] = key

g_hash_table_lookup(table, key, null) ==
    IF g_hash_table_contains(table, key)
    THEN (CHOOSE p \in table.kv : p[1] = key)[2]
    ELSE null

g_hash_table_insert(table, key, value) ==
    IF table.alloc
    THEN [table EXCEPT !.kv = {p \in @ : p[1] # key} \cup {<<key, value>>}]
    ELSE table

g_hash_table_remove(table, key) ==
    IF table.alloc
    THEN [table EXCEPT !.kv = {p \in @ : p[1] # key}]
    ELSE table

(* ---------------- state ---------------- *)

VARIABLES
    phase,          \* "live", "aborted" (a fatal GLib check) or "finalized"
    bundle_kind,    \* priv->bundle_kind
    bundle_id,      \* priv->bundle_id
    cpts,           \* priv->cpts: utf8 -> AsComponent
    mdata_hashes,   \* priv->mdata_hashes: AsComponent -> utf8
    hints,          \* priv->hints: utf8 -> GPtrArray
    kind,           \* as_component_get_kind of every component
    merge_kind,     \* as_component_get_merge_kind of every component
    pkgnames,       \* as_component_get_pkgnames of every component
    bundles,        \* as_component_get_bundles of every component
    data_id,        \* as_component_get_data_id of every component
    op,             \* the last call made on the result
    arg,            \* its component argument (NoComponent if it has none)
    argdata,        \* its data argument (NULL if it has none)
    ret,            \* its gboolean result (FALSE if it returns nothing)
    added           \* history: the components add_component has stored

priv == <<bundle_kind, bundle_id, cpts, mdata_hashes, hints>>
cptattrs == <<kind, merge_kind>>
cptfields == <<pkgnames, bundles, data_id>>
call == <<op, arg, argdata, ret>>
vars == <<phase, bundle_kind, bundle_id, cpts, mdata_hashes, hints,
          kind, merge_kind, pkgnames, bundles, data_id,
          op, arg, argdata, ret, added>>

(* ---------------- construction ---------------- *)

\* g_object_new zero-fills the private struct and runs asc_result_init,
\* which g_free()s bundle_id and unrefs the three (NULL) tables: nothing
\* is allocated, bundle_kind is 0.
asc_result_init ==
    /\ bundle_kind = 0
    /\ bundle_id = NULL
    /\ cpts = NullTable
    /\ mdata_hashes = NullTable
    /\ hints = NullTable

asc_result_new ==
    /\ phase = "live"
    /\ asc_result_init
    /\ op = "new" /\ arg = NoComponent /\ argdata = NULL /\ ret = FALSE

Init ==
    /\ asc_result_new
    /\ \E prof \in [Components -> Profiles] :
         /\ \A c \in Components : prof[c] \in ProfilesOf(c)
         /\ kind = [c \in Components |-> prof[c][1]]
         /\ merge_kind = [c \in Components |-> prof[c][2]]
    /\ pkgnames = [c \in Components |-> InitialPkgnames(c)]
    /\ bundles = [c \in Components |-> <<>>]
    /\ data_id = [c \in Components |-> <<>>]
    /\ added = {}

(* ---------------- queries ---------------- *)

asc_result_components_count == g_hash_table_size(cpts)

asc_result_hints_count == g_hash_table_size(hints)

\* asc_result_unit_ignored with the first test inverted
asc_result_unit_ignored_inverted ==
    (g_hash_table_size(cpts) # 0) /\ (g_hash_table_size(hints) = 0)

asc_result_unit_ignored ==
    (g_hash_table_size(cpts) = 0) /\ (g_hash_table_size(hints) = 0)

asc_result_get_bundle_kind == bundle_kind

asc_result_get_bundle_id == bundle_id

asc_result_get_component(cid) == g_hash_table_lookup(cpts, cid, NoComponent)

asc_result_get_hints(cid) == g_hash_table_lookup(hints, cid, <<>>)

asc_result_fetch_components ==
    IF cpts.alloc THEN {p[2] : p \in cpts.kv} ELSE {}

(* ---------------- operations ---------------- *)

\* every public function is called on a live object
Live == phase = "live"

asc_result_set_bundle_kind(k) ==
    /\ Live
    /\ bundle_kind' = k
    /\ op' = "set_bundle_kind" /\ arg' = NoComponent /\ argdata' = NULL
    /\ ret' = FALSE
    /\ UNCHANGED <<phase, bundle_id, cpts, mdata_hashes, hints>>
    /\ UNCHANGED <<cptattrs, cptfields, added>>

asc_result_set_bundle_id(id) ==
    /\ Live
    /\ bundle_id' = id
    /\ op' = "set_bundle_id" /\ arg' = NoComponent /\ argdata' = NULL
    /\ ret' = FALSE
    /\ UNCHANGED <<phase, bundle_kind, cpts, mdata_hashes, hints>>
    /\ UNCHANGED <<cptattrs, cptfields, added>>

\* UpdateGcid without the g_hash_table_contains test on priv->cpts
UpdateGcid_nocontains(cp, mh, did, cpt, data) ==
    LET cid == as_component_get_id(cpt) IN
    IF as_is_empty(cid)
    THEN [ret |-> TRUE,
          mdata_hashes |-> mh,
          data_id |-> [did EXCEPT
                         ![cpt] = asc_build_component_global_id(cid, NULL)]]
    ELSE LET old_hash == g_hash_table_lookup(mh, cpt, NULL)
             hash == IF old_hash = NULL
                     THEN g_compute_checksum_for_string(data)
                     ELSE g_compute_checksum_for_string(
                              g_strconcat(old_hash, data))
         IN [ret |-> TRUE,
             mdata_hashes |-> g_hash_table_insert(mh, cpt, hash),
             data_id |-> [did EXCEPT
                            ![cpt] = asc_build_component_global_id(cid, hash)]]

\* UpdateGcid without the empty-id fast path
UpdateGcid_nofastpath(cp, mh, did, cpt, data) ==
    LET cid == as_component_get_id(cpt) IN
    IF ~g_hash_table_contains(cp, cid)
    THEN [ret |-> FALSE, mdata_hashes |-> mh, data_id |-> did]
    ELSE LET old_hash == g_hash_table_lookup(mh, cpt, NULL)
             hash == IF old_hash = NULL
                     THEN g_compute_checksum_for_string(data)
                     ELSE g_compute_checksum_for_string(
                              g_strconcat(old_hash, data))
         IN [ret |-> TRUE,
             mdata_hashes |-> g_hash_table_insert(mh, cpt, hash),
             data_id |-> [did EXCEPT
                            ![cpt] = asc_build_component_global_id(cid, hash)]]

\* UpdateGcid that stores only a component's first hash
UpdateGcid_keepsfirst(cp, mh, did, cpt, data) ==
    LET cid == as_component_get_id(cpt) IN
    IF as_is_empty(cid)
    THEN [ret |-> TRUE,
          mdata_hashes |-> mh,
          data_id |-> [did EXCEPT
                         ![cpt] = asc_build_component_global_id(cid, NULL)]]
    ELSE IF ~g_hash_table_contains(cp, cid)
    THEN [ret |-> FALSE, mdata_hashes |-> mh, data_id |-> did]
    ELSE LET old_hash == g_hash_table_lookup(mh, cpt, NULL)
             hash == IF old_hash = NULL
                     THEN g_compute_checksum_for_string(data)
                     ELSE g_compute_checksum_for_string(
                              g_strconcat(old_hash, data))
         IN [ret |-> TRUE,
             mdata_hashes |-> IF old_hash = NULL
                              THEN g_hash_table_insert(mh, cpt, hash)
                              ELSE mh,
             data_id |-> [did EXCEPT
                            ![cpt] = asc_build_component_global_id(cid, hash)]]

\* The body of asc_result_update_component_gcid on tables cp (priv->cpts)
\* and mh (priv->mdata_hashes) and data-ids did: its return value and what
\* it leaves in mdata_hashes and in the components' data-ids.
UpdateGcid(cp, mh, did, cpt, data) ==
    LET cid == as_component_get_id(cpt) IN
    IF as_is_empty(cid)
    THEN [ret |-> TRUE,
          mdata_hashes |-> mh,
          data_id |-> [did EXCEPT
                         ![cpt] = asc_build_component_global_id(cid, NULL)]]
    ELSE IF ~g_hash_table_contains(cp, cid)
    THEN [ret |-> FALSE, mdata_hashes |-> mh, data_id |-> did]
    ELSE LET old_hash == g_hash_table_lookup(mh, cpt, NULL)
             hash == IF old_hash = NULL
                     THEN g_compute_checksum_for_string(data)
                     ELSE g_compute_checksum_for_string(
                              g_strconcat(old_hash, data))
         IN [ret |-> TRUE,
             mdata_hashes |-> g_hash_table_insert(mh, cpt, hash),
             data_id |-> [did EXCEPT
                            ![cpt] = asc_build_component_global_id(cid, hash)]]

\* the hash a further update would chain is still within the model's bound
ChainWithinBound(cpt) ==
    LET old_hash == g_hash_table_lookup(mdata_hashes, cpt, NULL) IN
    old_hash = NULL \/ Len(old_hash) <= MaxHashLen

asc_result_update_component_gcid(cpt, data) ==
    /\ Live
    /\ ChainWithinBound(cpt)
    /\ LET r == UpdateGcid(cpts, mdata_hashes, data_id, cpt, data) IN
         /\ mdata_hashes' = r.mdata_hashes
         /\ data_id' = r.data_id
         /\ ret' = r.ret
    /\ op' = "update_component_gcid" /\ arg' = cpt /\ argdata' = data
    /\ UNCHANGED <<phase, bundle_kind, bundle_id, cpts, hints>>
    /\ UNCHANGED <<cptattrs, pkgnames, bundles, added>>

\* web applications, operating systems and component-removal merges get no
\* package/bundle name
NeedsBundle(cpt) ==
    /\ kind[cpt] # AS_COMPONENT_KIND_WEB_APP
    /\ kind[cpt] # AS_COMPONENT_KIND_OPERATING_SYSTEM
    /\ merge_kind[cpt] # AS_MERGE_KIND_REMOVE_COMPONENT

\* SetsPkgnames with the test of the second branch
SetsPkgnames_last(cpt) ==
    NeedsBundle(cpt) /\ bundle_kind >= AS_BUNDLE_KIND_LAST

\* the first branch of the policy: pkgnames[2] = {priv->bundle_id, NULL}
SetsPkgnames(cpt) ==
    NeedsBundle(cpt) /\ bundle_kind = AS_BUNDLE_KIND_PACKAGE

\* the second branch of the policy: a new AsBundle is added
AddsBundle(cpt) ==
    /\ NeedsBundle(cpt)
    /\ bundle_kind # AS_BUNDLE_KIND_PACKAGE
    /\ (bundle_kind # AS_BUNDLE_KIND_UNKNOWN)
           /\ (bundle_kind >= AS_BUNDLE_KIND_LAST)

\* a NULL-terminated string array that starts with str
StrvOf(str) == IF str = NULL THEN <<>> ELSE <<str>>

\* as_bundle_new + as_bundle_set_kind + as_bundle_set_id
as_bundle_new(bkind, bid) == <<bkind, bid>>

\* AddRejects that only tests the id pointer, not the empty string
AddRejects_nullonly(cpt) == as_component_get_id(cpt) = NULL

\* the precondition failure of asc_result_add_component
AddRejects(cpt) == as_is_empty(as_component_get_id(cpt))

asc_result_add_component(cpt, data) ==
    LET cid == as_component_get_id(cpt) IN
    /\ Live
    /\ op' = "add_component" /\ arg' = cpt /\ argdata' = data
    /\ IF AddRejects(cpt)
       THEN /\ ret' = FALSE
            /\ UNCHANGED <<phase, priv, cptattrs, cptfields, added>>
       ELSE /\ ChainWithinBound(cpt)
            /\ AddsBundle(cpt) => Len(bundles[cpt]) < MaxBundles
            /\ pkgnames' = IF SetsPkgnames(cpt)
                           THEN [pkgnames EXCEPT ![cpt] = StrvOf(bundle_id)]
                           ELSE pkgnames
            /\ bundles' = IF AddsBundle(cpt)
                          THEN [bundles EXCEPT ![cpt] =
                                  Append(@, as_bundle_new(bundle_kind,
                                                          bundle_id))]
                          ELSE bundles
            /\ cpts' = g_hash_table_insert(cpts, cid, cpt)
            /\ added' = IF g_hash_table_lookup(cpts', cid, NoComponent) = cpt
                         THEN added \cup {cpt}
                         ELSE added
            /\ LET r == UpdateGcid(cpts', mdata_hashes, data_id, cpt, data)
               IN /\ mdata_hashes' = r.mdata_hashes
                  /\ data_id' = r.data_id
            /\ ret' = TRUE
            /\ UNCHANGED <<phase, bundle_kind, bundle_id, hints, cptattrs>>

asc_result_remove_component(cpt) ==
    LET found == g_hash_table_contains(cpts, as_component_get_id(cpt)) IN
    /\ Live
    /\ cpts' = g_hash_table_remove(cpts, as_component_get_id(cpt))
    /\ data_id' = IF found THEN [data_id EXCEPT ![cpt] = <<>>] ELSE data_id
    /\ mdata_hashes' = g_hash_table_remove(mdata_hashes, cpt)
    /\ ret' = found
    /\ op' = "remove_component" /\ arg' = cpt /\ argdata' = NULL
    /\ UNCHANGED <<phase, bundle_kind, bundle_id, hints>>
    /\ UNCHANGED <<cptattrs, pkgnames, bundles, added>>

\* The last unref: asc_result_finalize sets bundle_kind and creates the
\* three tables, then the parent's finalize releases the object.
asc_result_finalize ==
    /\ Live
    /\ phase' = "finalized"
    /\ bundle_kind' = AS_BUNDLE_KIND_UNKNOWN
    /\ cpts' = g_hash_table_new_full
    /\ mdata_hashes' = g_hash_table_new_full
    /\ hints' = g_hash_table_new_full
    /\ op' = "finalize" /\ arg' = NoComponent /\ argdata' = NULL
    /\ ret' = FALSE
    /\ UNCHANGED <<bundle_id, cptattrs, cptfields, added>>

\* A GLib call on a NULL table fails its g_return_if_fail check.  The check
\* logs a critical and returns (the operations above); where criticals are
\* fatal, or the checks are compiled out, the process ends instead.
g_return_if_fail_fatal ==
    /\ Live
    /\ ~cpts.alloc \/ ~mdata_hashes.alloc \/ ~hints.alloc
    /\ phase' = "aborted"
    /\ UNCHANGED <<priv, cptattrs, cptfields, call, added>>

Next ==
    \/ \E k \in BundleKinds : asc_result_set_bundle_kind(k)
    \/ \E id \in BundleIdValues : asc_result_set_bundle_id(id)
    \/ \E c \in Components, d \in DataValues : asc_result_add_component(c, d)
    \/ \E c \in Components, d \in DataValues :
           asc_result_update_component_gcid(c, d)
    \/ \E c \in Components : asc_result_remove_component(c)
    \/ asc_result_finalize
    \/ g_return_if_fail_fatal

Spec == Init /\ [][Next]_vars

(* ---------------- the result with its tables created ---------------- *)

\* The three tables as the g_hash_table_new_full calls of lines 55-66
\* build them, with everything else as after construction.  No call
\* sequence brings a live result of the code as written here, since those
\* calls sit in asc_result_finalize; the table logic of add, update and
\* remove is decided from this state, where entries can be stored.  The
\* bundle kind stays unknown here, so the components' kinds play no part
\* and one assignment of them stands for all.
InitTables ==
    /\ phase = "live"
    /\ bundle_kind = AS_BUNDLE_KIND_UNKNOWN
    /\ bundle_id = NULL
    /\ cpts = g_hash_table_new_full
    /\ mdata_hashes = g_hash_table_new_full
    /\ hints = g_hash_table_new_full
    /\ op = "new" /\ arg = NoComponent /\ argdata = NULL /\ ret = FALSE
    /\ kind = [c \in Components |->
                 IF c = 3 THEN AS_COMPONENT_KIND_OPERATING_SYSTEM
                          ELSE AS_COMPONENT_KIND_DESKTOP_APP]
    /\ merge_kind = [c \in Components |-> AS_MERGE_KIND_NONE]
    /\ pkgnames = [c \in Components |-> InitialPkgnames(c)]
    /\ bundles = [c \in Components |-> <<>>]
    /\ data_id = [c \in Components |-> <<>>]
    /\ added = {}

NextTables ==
    \/ \E c \in Components, d \in DataValues : asc_result_add_component(c, d)
    \/ \E c \in Components, d \in DataValues :
           asc_result_update_component_gcid(c, d)
    \/ \E c \in Components : asc_result_remove_component(c)

SpecTables == InitTables /\ [][NextTables]_vars

(* ---------------- properties ---------------- *)

\* the step is a call of the named function that returned
IsCall(name) == phase' = "live" /\ op' = name

\* the last call was the named function
WasCall(name) == op = name

\* a component the bundle policy leaves untagged
Exempt(cpt) ==
    \/ kind[cpt] \in {AS_COMPONENT_KIND_WEB_APP,
                      AS_COMPONENT_KIND_OPERATING_SYSTEM}
    \/ merge_kind[cpt] = AS_MERGE_KIND_REMOVE_COMPONENT

HasId(cpt) == as_component_get_id(cpt) \notin {NULL, ""}

StoredIds == {cid \in ComponentIds : asc_result_get_component(cid) # NoComponent}

\* C1: after asc_result_add_component succeeded for a component with a
\* non-empty id, asc_result_get_component of that id returns the component
\* and asc_result_components_count is the number of distinct stored ids,
\* which then is at least one.
C1_AddThenGet ==
    (WasCall("add_component") /\ ret /\ HasId(arg)) =>
        /\ asc_result_get_component(as_component_get_id(arg)) = arg
        /\ asc_result_components_count = Cardinality(StoredIds)
        /\ asc_result_components_count >= 1

\* C2: GCID hash chaining.  An add of a component without a prior hash
\* leaves the GCID of (id, digest(d0)); an update of a stored component
\* with prior hash h leaves the GCID of (id, digest(h + d)); and
\* digest(digest("a") + "b") is not digest("ab").
C2_HashChain ==
    [][ /\ ( /\ IsCall("add_component") /\ ret'
             /\ g_hash_table_lookup(mdata_hashes, arg', NULL) = NULL )
           => data_id'[arg'] =
                  asc_build_component_global_id(
                      as_component_get_id(arg'),
                      g_compute_checksum_for_string(argdata'))
        /\ ( /\ IsCall("update_component_gcid") /\ HasId(arg')
             /\ asc_result_get_component(as_component_get_id(arg')) = arg'
             /\ g_hash_table_lookup(mdata_hashes, arg', NULL) # NULL )
           => data_id'[arg'] =
                  asc_build_component_global_id(
                      as_component_get_id(arg'),
                      g_compute_checksum_for_string(
                          g_hash_table_lookup(mdata_hashes, arg', NULL)
                              \o argdata'))
        /\ g_compute_checksum_for_string(
               g_compute_checksum_for_string("a") \o "b")
             # g_compute_checksum_for_string("ab")
      ]_vars

\* C3: removing a component right after it was added returns TRUE;
\* after a remove, asc_result_get_component of the id returns nothing, and
\* an asc_result_update_component_gcid that follows the remove fails.
C3_RemoveAdded ==
    [][ /\ ( /\ WasCall("add_component") /\ ret /\ phase = "live"
             /\ IsCall("remove_component") /\ arg' = arg )
           => ret'
        /\ ( IsCall("remove_component") /\ HasId(arg') /\ ret' )
           => g_hash_table_lookup(cpts', as_component_get_id(arg'),
                                  NoComponent) = NoComponent
        /\ ( /\ WasCall("remove_component") /\ HasId(arg) /\ phase = "live"
             /\ IsCall("update_component_gcid") /\ arg' = arg )
           => ~ret'
      ]_vars

\* C4: asc_result_add_component of a component with an empty id returns
\* FALSE and changes nothing: the three tables, the component count and
\* every component's package names, bundles and data-id stay as they were.
C4_EmptyIdAddFails ==
    [][ ( IsCall("add_component") /\ ~HasId(arg') ) =>
          /\ ~ret'
          /\ cpts' = cpts /\ mdata_hashes' = mdata_hashes /\ hints' = hints
          /\ asc_result_components_count' = asc_result_components_count
          /\ pkgnames' = pkgnames /\ bundles' = bundles
          /\ data_id' = data_id
      ]_vars

\* an add of an empty-id component was refused under a package bundle that
\* would have retagged it
C4_Witness ==
    /\ WasCall("add_component") /\ ~HasId(arg) /\ ~ret
    /\ bundle_kind = AS_BUNDLE_KIND_PACKAGE /\ bundle_id = "pkg1"
    /\ ~Exempt(arg) /\ pkgnames[arg] = <<"old">>

\* C5: after a successful asc_result_add_component under bundle kind
\* package with bundle id B, a component that is not exempt has exactly
\* the package names <<B>>.
C5_PackageAttachment ==
    ( /\ WasCall("add_component") /\ ret
      /\ bundle_kind = AS_BUNDLE_KIND_PACKAGE /\ bundle_id # NULL
      /\ ~Exempt(arg) )
    => pkgnames[arg] = <<bundle_id>>

\* a component that came with the package name "old" was added under the
\* package bundle pkg1
C5_Witness ==
    /\ WasCall("add_component") /\ ret /\ ~Exempt(arg)
    /\ InitialPkgnames(arg) = <<"old">>
    /\ bundle_kind = AS_BUNDLE_KIND_PACKAGE /\ bundle_id = "pkg1"
    /\ pkgnames[arg] = <<"pkg1">>

\* C6: a successful asc_result_add_component under a concrete bundle kind
\* other than package (not unknown, below the sentinel) appends the
\* descriptor (bundle_kind, bundle_id) to the bundles of a component that
\* is not exempt and leaves its package names alone.
C6_BundleAttachment ==
    [][ ( /\ IsCall("add_component") /\ ret' /\ ~Exempt(arg')
          /\ bundle_kind \notin {AS_BUNDLE_KIND_UNKNOWN,
                                 AS_BUNDLE_KIND_PACKAGE}
          /\ bundle_kind < AS_BUNDLE_KIND_LAST )
        => /\ bundles'[arg'] =
                  Append(bundles[arg'], <<bundle_kind, bundle_id>>)
           /\ pkgnames'[arg'] = pkgnames[arg']
      ]_vars

\* C7: under bundle kind unknown or the sentinel AS_BUNDLE_KIND_LAST,
\* asc_result_add_component changes no component's package names or
\* bundles.
C7_NoAssociation ==
    [][ ( /\ IsCall("add_component")
          /\ bundle_kind \in {AS_BUNDLE_KIND_UNKNOWN, AS_BUNDLE_KIND_LAST} )
        => (pkgnames' = pkgnames /\ bundles' = bundles)
      ]_vars

\* C8: asc_result_add_component of an exempt component (web application,
\* operating system, or a remove merge) with a non-empty id changes no
\* package names or bundles, stores the component and assigns it a GCID.
C8_ExemptUntagged ==
    [][ ( IsCall("add_component") /\ Exempt(arg') /\ HasId(arg') )
        => /\ pkgnames' = pkgnames /\ bundles' = bundles
           /\ ret'
           /\ g_hash_table_lookup(cpts', as_component_get_id(arg'),
                                  NoComponent) = arg'
           /\ data_id'[arg'] # <<>>
      ]_vars

\* C9: asc_result_update_component_gcid of a component with a non-empty
\* id that is no key of cpts returns FALSE and changes nothing; it returns
\* TRUE for a non-empty id only if the id is a key of cpts.
C9_UpdateNotFound ==
    [][ ( IsCall("update_component_gcid") /\ HasId(arg') )
        => /\ ~g_hash_table_contains(cpts, as_component_get_id(arg'))
                 => /\ ~ret'
                    /\ cpts' = cpts /\ mdata_hashes' = mdata_hashes
                    /\ hints' = hints /\ data_id' = data_id
           /\ ret' => g_hash_table_contains(cpts, as_component_get_id(arg'))
      ]_vars

\* an update of a component that was never stored was refused
C9_Witness ==
    /\ WasCall("update_component_gcid") /\ HasId(arg) /\ ~ret
    /\ ~g_hash_table_contains(cpts, as_component_get_id(arg))
    /\ data_id[arg] = <<>>

\* C10: asc_result_unit_ignored is TRUE exactly when
\* asc_result_components_count and asc_result_hints_count are both 0.
C10_UnitIgnored ==
    asc_result_unit_ignored <=>
        (asc_result_components_count = 0 /\ asc_result_hints_count = 0)

\* the unit is reported ignored after calls on the result
C10_Witness ==
    /\ asc_result_unit_ignored
    /\ WasCall("add_component") /\ ret
    /\ asc_result_components_count = 0 /\ asc_result_hints_count = 0

\* the keys of a table
Keys(table) == {p[1] : p \in table.kv}

\* the component object stored under a component's id
StoredAs(cpt) == asc_result_get_component(as_component_get_id(cpt))

\* C11: a live result has its three tables allocated, a newly created one
\* has them empty with bundle kind unknown, and they are released once the
\* result is finalized.
C11_Lifecycle ==
    /\ phase = "live" => (cpts.alloc /\ mdata_hashes.alloc /\ hints.alloc)
    /\ (phase = "live" /\ WasCall("new")) =>
           /\ cpts = g_hash_table_new_full
           /\ mdata_hashes = g_hash_table_new_full
           /\ hints = g_hash_table_new_full
           /\ bundle_kind = AS_BUNDLE_KIND_UNKNOWN
    /\ phase = "finalized" =>
           (~cpts.alloc /\ ~mdata_hashes.alloc /\ ~hints.alloc)

C14_EmptyIdFastPath ==
    [][ ( IsCall("update_component_gcid") /\ ~HasId(arg') ) =>
          /\ ret'
          /\ data_id'[arg'] =
                 asc_build_component_global_id(as_component_get_id(arg'),
                                               NULL)
          /\ cpts' = cpts /\ mdata_hashes' = mdata_hashes /\ hints' = hints
      ]_vars

\* an empty-id component got the GCID of (empty id, no hash) from an update
C14_Witness ==
    /\ WasCall("update_component_gcid") /\ ~HasId(arg) /\ ret
    /\ phase = "live"
    /\ data_id[arg] = asc_build_component_global_id("", NULL)

\* C15: the update that asc_result_add_component runs after its insert
\* returns TRUE whenever add has passed its empty-id check.
C15_InnerUpdateSucceeds ==
    [][ ( IsCall("add_component") /\ HasId(arg') ) =>
          UpdateGcid(cpts', mdata_hashes, data_id, arg', argdata').ret
      ]_vars

====
